---- MODULE Spec2Model ----
(***************************************************************************)
(* Model of src/gps_simulator.py: MultiVehicleSimulator, the fleet        *)
(* orchestrator (add_vehicle, start, stop) and the per-vehicle driver     *)
(* thread (simulate_single_vehicle) with its telemetry reporter           *)
(* (send_location_update).                                                *)
(*                                                                         *)
(* Lengths are fixed-point integers in units of 5 cm (20000 units to the  *)
(* kilometre); a coordinate is a pair <<lat, lon>> on a plane, so that    *)
(* calculate_distance is the Euclidean distance, kept squared (the        *)
(* comparisons of the code are made on the squares).  Times are seconds.  *)
(* time.sleep(n) sets the sleeper's timer to n; Tick lets time pass, and  *)
(* only when no thread has a step to take at the current instant.         *)
(*                                                                         *)
(* Spec, SpecDriver, SpecTrip and SpecFault run the program on different  *)
(* fleets; SpecMath applies interpolate_position (in binary floating      *)
(* point of a few bits) and find_nearest_stop_index to their arguments.   *)
(*                                                                         *)
(* SpecService is the tracking service of src/main.py: the handlers       *)
(* register_vehicle, delete_vehicle and update_location as tasks of one   *)
(* event loop that interleave at their awaits, the collections vehicles   *)
(* and positions of the database, and the ConnectionManager with the      *)
(* WebSocket clients.                                                      *)
(***************************************************************************)
EXTENDS Integers, Sequences, FiniteSets, TLC

\* ------------------------------------------------------------------ bounds
MaxVehicles == 2
MaxLaps == 2
MaxCalls == 5
\* the functions are examined on coordinates 0..MaxCoord (whole units) in
\* binary floating point of MantissaBits bits, and on up to MaxStops stops
MaxCoord == 10
MantissaBits == 3
MaxStops == 2
\* requests the service handles in a run, WebSocket clients
MaxRequests == 3
MaxClients == 2

\* ------------------------------------------------------- program constants
\* 0.03 km, the default threshold_km of find_nearest_stop_index
THRESHOLD == 600
\* 0.0001 km, the length below which a segment is skipped
EPSILON == 2
\* 0.00004 degrees of latitude (about 4.4 m), the amplitude of the GPS noise
NOISE == 88
\* km/h, the amplitude of the speed jitter
JITTER == 3
\* seconds slept between two laps
LAP_PAUSE == 30
\* seconds slept by start() between two launches
STAGGER == 5
\* seconds, the timeout of each thread.join of stop()
JOIN_TIMEOUT == 5

UnitsPerKm == 20 * 1000

\* what requests.post can do: HTTP 200, another status, a RequestException
Outcomes == {"200", "500", "RequestException"}

\* ------------------------------------------------------------------- data
ROUTE_LINE == << <<0, 0>>, <<0, 1200>> >>
STOPS_MID == << <<0, 600>> >>
ROUTE_BEND == << <<0, 0>>, <<1, 1>>, <<0, 1000>> >>
ROUTE_RETURN == << <<0, 0>>, <<0, 1200>>, <<0, 0>> >>
ROUTE_POINT == << <<0, 0>> >>
ROUTE_TRIP == << <<0, 0>>, <<0, 1600>> >>
STOPS_HALF == << <<0, 800>> >>
STOPS_TWIN == << <<0, 400>>, <<0, 900>> >>
ROUTE_STILL == << <<0, 0>>, <<1, 1>> >>
ROUTE_DUP == << <<0, 0>>, <<0, 0>>, <<0, 1200>>, <<0, 1200>> >>

Vehicle(id, route, stops, speed, interval, dwell, loop) ==
    [vehicle_id |-> id, route |-> route, bus_stops |-> stops,
     speed_kmh |-> speed, update_interval |-> interval,
     stop_duration |-> dwell, loop |-> loop]

\* The environment of a run: the configurations add_vehicle is called with,
\* how many vehicles are registered at most, the values random.uniform is
\* sampled at (noise as pairs <<lat_noise, lon_noise>> of multiples of NOISE,
\* jitter as multiples of JITTER) and what the tracking service answers.
FleetEnv ==
    [menu |-> { Vehicle("BUS-01", ROUTE_LINE, STOPS_MID, 36, 2, 10, TRUE),
                Vehicle("VAN-01", ROUTE_BEND, << >>, 36, 3, 10, FALSE) },
     fleet |-> MaxVehicles,
     noise |-> {<<0, 0>>},
     jitter |-> {1},
     outcomes |-> {"200", "RequestException"}]

\* one vehicle at a time, with noise, jitter and every answer of the service
DriverEnv ==
    [menu |-> { Vehicle("BUS-02", ROUTE_RETURN, STOPS_MID, 36, 2, 10, TRUE),
                Vehicle("VAN-01", ROUTE_BEND, << >>, 36, 3, 10, FALSE),
                Vehicle("BAD-01", ROUTE_POINT, << >>, 36, 3, 10, FALSE) },
     fleet |-> 1,
     noise |-> {<<0, 0>>, <<0, -1>>, <<0, 1>>, <<1, 0>>},
     jitter |-> {-1, 1},
     outcomes |-> Outcomes]

\* one vehicle at a time on a single trip or slow laps; the service answers 200
TripEnv ==
    [menu |-> { Vehicle("TRIP-01", ROUTE_TRIP, STOPS_HALF, 36, 4, 10, FALSE),
                Vehicle("SLOW-01", ROUTE_LINE, STOPS_MID, 2, 60, 10, TRUE),
                Vehicle("VAN-01", ROUTE_BEND, << >>, 36, 3, 10, FALSE),
                Vehicle("VAN-02", ROUTE_LINE, << >>, 36, 3, 10, TRUE) },
     fleet |-> 1,
     noise |-> {<<0, 0>>, <<1, 0>>, <<0, -1>>},
     jitter |-> {-1, 1},
     outcomes |-> {"200"}]

\* a fleet in which a vehicle has a speed or an update interval of 0
FaultEnv ==
    [menu |-> { Vehicle("BUS-01", ROUTE_LINE, STOPS_MID, 36, 2, 10, TRUE),
                Vehicle("ZERO-01", ROUTE_LINE, << >>, 0, 3, 10, TRUE),
                Vehicle("ZERO-02", ROUTE_LINE, << >>, 36, 0, 10, FALSE) },
     fleet |-> MaxVehicles,
     noise |-> {<<0, 0>>},
     jitter |-> {1},
     outcomes |-> {"200"}]

\* one vehicle at a time on routes with two stops close to each other, with
\* repeated waypoints, or with nothing but repeated waypoints
EdgeEnv ==
    [menu |-> { Vehicle("TWIN-01", ROUTE_TRIP, STOPS_TWIN, 36, 4, 10, FALSE),
                Vehicle("IDLE-01", ROUTE_STILL, STOPS_MID, 36, 2, 10, TRUE),
                Vehicle("IDLE-02", ROUTE_STILL, STOPS_MID, 36, 2, 10, FALSE),
                Vehicle("DUP-01", ROUTE_DUP, STOPS_MID, 36, 2, 10, TRUE),
                Vehicle("ZERO-03", ROUTE_DUP, << >>, 0, 3, 10, FALSE) },
     fleet |-> 1,
     noise |-> {<<0, 0>>, <<0, 1>>},
     jitter |-> {1},
     outcomes |-> {"200"}]

\* the vehicle identifiers of the requests and the WebSocket clients
VehicleIds == {"BUS-01"}
Clients == 1..MaxClients

VARIABLES running, threads, main, sent, clock, env, probe, service

vars == <<running, threads, main, sent, clock, env, probe, service>>

NoiseChoices == {<<k[1] * NOISE, k[2] * NOISE>> : k \in env.noise}
JitterChoices == {k * JITTER : k \in env.jitter}

Min(a, b) == IF a <= b THEN a ELSE b
Max(a, b) == IF a >= b THEN a ELSE b

\* ------------------------------------------------------- geospatial math
\* the square of the distance between two coordinates
calculate_distance(lat1, lon1, lat2, lon2) ==
    (lat2 - lat1) * (lat2 - lat1) + (lon2 - lon1) * (lon2 - lon1)

\* fraction = num / den
interpolate_position(start, end, num, den) ==
    << start[1] + ((end[1] - start[1]) * num) \div den,
       start[2] + ((end[2] - start[2]) * num) \div den >>

\* a stop at exactly the threshold does not qualify
RECURSIVE FirstNear_strict(_, _, _, _)
FirstNear_strict(current_pos, bus_stops, threshold, idx) ==
    IF idx >= Len(bus_stops) THEN -1
    ELSE IF calculate_distance(current_pos[1], current_pos[2],
                               bus_stops[idx + 1][1], bus_stops[idx + 1][2])
            < threshold * threshold
         THEN idx
         ELSE FirstNear_strict(current_pos, bus_stops, threshold, idx + 1)

RECURSIVE FirstNear(_, _, _, _)
FirstNear(current_pos, bus_stops, threshold, idx) ==
    IF idx >= Len(bus_stops) THEN -1
    ELSE IF calculate_distance(current_pos[1], current_pos[2],
                               bus_stops[idx + 1][1], bus_stops[idx + 1][2])
            <= threshold * threshold
         THEN idx
         ELSE FirstNear(current_pos, bus_stops, threshold, idx + 1)

\* 0 for "no stop" instead of -1
find_nearest_stop_index_zero_for_none(current_pos, bus_stops) ==
    Max(0, FirstNear(current_pos, bus_stops, THRESHOLD, 0))

\* the threshold of 0.03 taken for metres
find_nearest_stop_index_in_metres(current_pos, bus_stops) ==
    FirstNear(current_pos, bus_stops, THRESHOLD \div 1000, 0)

\* the index (from 0) of the first stop within the threshold, or -1
find_nearest_stop_index(current_pos, bus_stops) ==
    FirstNear(current_pos, bus_stops, THRESHOLD, 0)

\* int(q) for q = time_needed_seconds / update_interval, where
\* time_needed_seconds = sqrt(d2) / UnitsPerKm / speed * 3600:
\* the largest n with (n * speed * interval * UnitsPerKm)^2 <= 3600^2 * d2,
\* both sides divided by 400^2
RECURSIVE IntQuotient(_, _, _, _)
IntQuotient(d2, speed, interval, n) ==
    LET m == (n + 1) * speed * interval * (UnitsPerKm \div 400)
    IN IF m * m <= 81 * d2 THEN IntQuotient(d2, speed, interval, n + 1) ELSE n

\* the quotient rounded up instead of truncated
num_updates_of_rounds_up(d2, speed, interval) ==
    Max(1, IntQuotient(d2, speed, interval, 0) + 1)

num_updates_of(d2, speed, interval) ==
    Max(1, IntQuotient(d2, speed, interval, 0))

\* --------------------------------------------------- telemetry reporter
\* send_location_update without its except clause
send_location_update_propagates(payload, outcome) ==
    [payload |-> payload, attempts |-> 1,
     raised |-> (outcome = "RequestException"),
     printed |-> IF outcome = "200" THEN "ok" ELSE "update failed"]

\* One call of send_location_update: the POST attempts it makes and whether
\* it raises to the driver.
send_location_update(payload, outcome) ==
    [payload |-> payload, attempts |-> 1, raised |-> FALSE,
     printed |-> IF outcome = "200" THEN "ok"
                 ELSE IF outcome = "RequestException" THEN "connection error"
                 ELSE "update failed"]

\* the last request made of the tracking service; site names the call of
\* send_location_update that made it: dwell, resume, normal or final
NoSample ==
    [thread |-> 0, lat |-> 0, lon |-> 0, speed |-> 0, status |-> "none",
     site |-> "none", i |-> 0, step |-> 0, attempts |-> 0]

Sample(t, lat, lon, speed, status, site, i, step) ==
    [thread |-> t, lat |-> lat, lon |-> lon, speed |-> speed, status |-> status,
     site |-> site, i |-> i, step |-> step]

\* ------------------------------------------------------------ the state
NewThread(cfg) ==
    [cfg |-> cfg, state |-> "new", pc |-> "while", iteration |-> 0,
     stopped_at_stops |-> {}, i |-> 0, step |-> 0, lat |-> 0, lon |-> 0,
     timer |-> 0, susp |-> "none", firstRead |-> "none",
     emitted |-> 0, posts |-> 0, failures |-> 0, dwells |-> << >>,
     fault |-> "none"]

\* elapsed times are counted up to this value
CapTime == STAGGER * (MaxVehicles + 1) + JOIN_TIMEOUT + 1

\* no function is under examination
NoProbe == [op |-> "none", args |-> << >>, result |-> << >>]

\* the tracking service: an empty database, no request, no client
NoService ==
    [vehicles |-> [v \in VehicleIds |-> "absent"],
     positions |-> {},
     active_connections |-> {},
     clients |-> [c \in Clients |-> "idle"],
     tasks |-> << >>]

InitProgram(e) ==
    /\ running = FALSE
    /\ service = NoService
    /\ threads = << >>
    /\ main = [pc |-> "idle", i |-> 0, timer |-> 0, launched |-> << >>,
               delays |-> 0, waited |-> 0, joins |-> 0, last |-> "none",
               calls |-> 0]
    /\ sent = NoSample
    /\ clock = [elapsed |-> 0, counting |-> FALSE,
                everStopped |-> FALSE, stopSinceStart |-> FALSE,
                cleared |-> {}]
    /\ env = e

InitWith(e) == InitProgram(e) /\ probe = NoProbe

Init == InitWith(FleetEnv)

\* The call in progress ends; main.last names the call that ended last and
\* how: add_vehicle, start_ok, start_RuntimeError, start_KeyboardInterrupt,
\* stop_ok, stop_RuntimeError.
Complete(m, res) ==
    [m EXCEPT !.pc = "idle", !.i = 0, !.timer = 0, !.launched = << >>,
              !.delays = 0, !.waited = 0, !.joins = 0, !.last = res]

\* the stopwatch of a run of start() followed at once by stop() is halted
Halted == [clock EXCEPT !.elapsed = 0, !.counting = FALSE]

Alive(t) == threads[t].state = "alive"

\* --------------------------------------------------- fleet orchestrator
\* add_vehicle: a thread object is created and appended, whatever the
\* arguments and whether or not the fleet is running
add_vehicle(cfg) ==
    /\ main.pc = "idle"
    /\ main.calls < MaxCalls
    /\ Len(threads) < Min(MaxVehicles, env.fleet)
    /\ threads' = Append(threads, NewThread(cfg))
    /\ main' = [Complete(main, "add_vehicle") EXCEPT !.calls = @ + 1]
    /\ clock' = Halted
    /\ UNCHANGED <<running, sent, env, probe, service>>

\* start() that leaves the flag as it is
start_begin_without_flag ==
    /\ main.pc = "idle"
    /\ main.calls < MaxCalls
    /\ main' = [main EXCEPT !.pc = "start", !.i = 1, !.timer = 0,
                            !.launched = << >>, !.delays = 0,
                            !.calls = @ + 1]
    /\ clock' = [clock EXCEPT !.elapsed = 0, !.counting = TRUE,
                              !.stopSinceStart = FALSE]
    /\ UNCHANGED <<running, threads, sent, env, probe, service>>

\* start(), up to the loop over self.threads
start_begin ==
    /\ main.pc = "idle"
    /\ main.calls < MaxCalls
    /\ running' = TRUE
    /\ main' = [main EXCEPT !.pc = "start", !.i = 1, !.timer = 0,
                            !.launched = << >>, !.delays = 0,
                            !.calls = @ + 1]
    /\ clock' = [clock EXCEPT !.elapsed = 0, !.counting = TRUE,
                              !.stopSinceStart = FALSE]
    /\ UNCHANGED <<threads, sent, env, probe, service>>

\* a turn of start()'s loop that sleeps after every launch, the last too
start_launch_always_sleeps ==
    /\ main.pc = "start"
    /\ main.timer = 0
    /\ main.i <= Len(threads)
    /\ IF threads[main.i].state # "new"
       THEN /\ main' = Complete(main, "start_RuntimeError")
            /\ clock' = Halted
            /\ UNCHANGED threads
       ELSE /\ threads' = [threads EXCEPT ![main.i].state = "alive"]
            /\ UNCHANGED clock
            /\ main' = [main EXCEPT
                    !.i = @ + 1,
                    !.launched = Append(@, main.i),
                    !.timer = STAGGER,
                    !.delays = @ + 1]
    /\ UNCHANGED <<running, sent, env, probe, service>>

\* one turn of start()'s loop: thread.start(), which raises RuntimeError
\* for a thread started before, then the stagger sleep except after the last
start_launch ==
    /\ main.pc = "start"
    /\ main.timer = 0
    /\ main.i <= Len(threads)
    /\ IF threads[main.i].state # "new"
       THEN /\ main' = Complete(main, "start_RuntimeError")
            /\ clock' = Halted
            /\ UNCHANGED threads
       ELSE /\ threads' = [threads EXCEPT ![main.i].state = "alive"]
            /\ UNCHANGED clock
            /\ main' = [main EXCEPT
                    !.i = @ + 1,
                    !.launched = Append(@, main.i),
                    !.timer = IF main.i - 1 < Len(threads) - 1
                              THEN STAGGER ELSE 0,
                    !.delays = IF main.i - 1 < Len(threads) - 1
                               THEN @ + 1 ELSE @]
    /\ UNCHANGED <<running, sent, env, probe, service>>

\* start() returns when its loop is exhausted
start_return ==
    /\ main.pc = "start"
    /\ main.timer = 0
    /\ main.i > Len(threads)
    /\ main' = Complete(main, "start_ok")
    /\ UNCHANGED <<running, threads, sent, clock, env, probe, service>>

\* stop(), up to the loop over self.threads.  It is called by a caller that
\* is idle, or from main()'s KeyboardInterrupt handler, which Ctrl-C enters
\* also while start() is still running.  clock.cleared records the drivers
\* that were alive when a call of stop() cleared the flag.
stop_begin ==
    /\ main.pc \in {"idle", "start"}
    /\ main.calls < MaxCalls
    /\ running' = FALSE
    /\ main' = [(IF main.pc = "start"
                 THEN Complete(main, "start_KeyboardInterrupt")
                 ELSE main)
                EXCEPT !.pc = "stop", !.i = 1, !.timer = 0,
                       !.waited = 0, !.joins = 0, !.calls = @ + 1]
    /\ clock' = [(IF main.pc = "idle" /\ main.last = "start_ok"
                  THEN clock ELSE Halted)
                 EXCEPT !.everStopped = TRUE, !.stopSinceStart = TRUE,
                        !.cleared = @ \cup {t \in 1..Len(threads) : Alive(t)}]
    /\ UNCHANGED <<threads, sent, env, probe, service>>

\* a join whose timeout is twice as long
stop_join_waits_longer ==
    /\ main.pc = "stop"
    /\ main.i <= Len(threads)
    /\ main' = IF threads[main.i].state = "new"
               THEN Complete(main, "stop_RuntimeError")
               ELSE IF threads[main.i].state = "alive"
               THEN [main EXCEPT !.pc = "join", !.timer = 2 * JOIN_TIMEOUT,
                                 !.joins = @ + 1]
               ELSE [main EXCEPT !.i = @ + 1, !.joins = @ + 1]
    /\ UNCHANGED <<running, threads, sent, clock, env, probe, service>>

\* a join that raises for every thread that is not running
stop_join_needs_alive ==
    /\ main.pc = "stop"
    /\ main.i <= Len(threads)
    /\ main' = IF threads[main.i].state # "alive"
               THEN Complete(main, "stop_RuntimeError")
               ELSE [main EXCEPT !.pc = "join", !.timer = JOIN_TIMEOUT,
                                 !.joins = @ + 1]
    /\ UNCHANGED <<running, threads, sent, clock, env, probe, service>>

\* thread.join(timeout=5) is entered: RuntimeError for a thread never
\* started, no wait for a thread that has ended, else the wait begins
stop_join ==
    /\ main.pc = "stop"
    /\ main.i <= Len(threads)
    /\ main' = IF threads[main.i].state = "new"
               THEN Complete(main, "stop_RuntimeError")
               ELSE IF threads[main.i].state = "alive"
               THEN [main EXCEPT !.pc = "join", !.timer = JOIN_TIMEOUT,
                                 !.joins = @ + 1]
               ELSE [main EXCEPT !.i = @ + 1, !.joins = @ + 1]
    /\ UNCHANGED <<running, threads, sent, clock, env, probe, service>>

\* thread.join(timeout=5) returns: the thread has ended or the timeout has
\* passed; the thread is left as it is
stop_joined ==
    /\ main.pc = "join"
    /\ main.timer = 0 \/ ~Alive(main.i)
    /\ main' = [main EXCEPT !.pc = "stop", !.i = @ + 1, !.timer = 0]
    /\ UNCHANGED <<running, threads, sent, clock, env, probe, service>>

\* stop() returns when its loop is exhausted
stop_return ==
    /\ main.pc = "stop"
    /\ main.i > Len(threads)
    /\ main' = Complete(main, "stop_ok")
    /\ UNCHANGED <<running, threads, sent, clock, env, probe, service>>

\* ---------------------------------------------------- vehicle motion driver
\* the for loop over range(len(route) - 1) takes up index i, or is exhausted
ForI(th, i) ==
    IF i < Len(th.cfg.route) - 1
    THEN [th EXCEPT !.pc = "for_i", !.i = i, !.step = 0, !.timer = 0]
    ELSE [th EXCEPT !.pc = "lap_end", !.i = i, !.step = 0, !.timer = 0]

\* the thread ends on an exception nothing catches
Crash(th, fault) ==
    [th EXCEPT !.state = "crashed", !.pc = "exit", !.fault = fault,
               !.timer = 0, !.susp = "none"]

SegmentDistance(th) ==
    LET a == th.cfg.route[th.i + 1]
        b == th.cfg.route[th.i + 2]
    IN calculate_distance(a[1], a[2], b[1], b[2])

NumUpdates(th) ==
    num_updates_of(SegmentDistance(th), th.cfg.speed_kmh, th.cfg.update_interval)

\* The driver has made the call r of send_location_update.  emitted counts
\* the samples, posts the requests, failures (up to 1) the requests that
\* did not end in HTTP 200.
Reported(th, r) ==
    LET counted == [th EXCEPT !.emitted = @ + 1, !.posts = @ + r.attempts,
                       !.failures = IF r.printed = "ok" THEN @ ELSE 1]
    IN IF r.raised THEN Crash(counted, "RequestException") ELSE counted

Posted(r) ==
    [thread |-> r.payload.thread, lat |-> r.payload.lat, lon |-> r.payload.lon,
     speed |-> r.payload.speed, status |-> r.payload.status,
     site |-> r.payload.site, i |-> r.payload.i, step |-> r.payload.step,
     attempts |-> r.attempts]

\* the stop is not recorded
MarkVisited_forgets(stopped_at_stops, stop_idx) == stopped_at_stops

\* stopped_at_stops.add(stop_idx)
MarkVisited(stopped_at_stops, stop_idx) == stopped_at_stops \cup {stop_idx}

\* the sleep follows the last step of a segment too
AfterSample_sleeps_after_last(th) ==
    IF th.state # "alive" THEN th
    ELSE IF th.step < NumUpdates(th)
    THEN [th EXCEPT !.pc = "for_step", !.step = @ + 1,
                    !.timer = th.cfg.update_interval, !.susp = "interval"]
    ELSE [ForI(th, th.i + 1) EXCEPT !.timer = th.cfg.update_interval,
                                    !.susp = "interval"]

\* after a step's sample: the sleep between two steps of a segment, none
\* after the last, and the next turn of the loops
AfterSample(th) ==
    IF th.state # "alive" THEN th
    ELSE IF th.step < NumUpdates(th)
    THEN [th EXCEPT !.pc = "for_step", !.step = @ + 1,
                    !.timer = th.cfg.update_interval, !.susp = "interval"]
    ELSE ForI(th, th.i + 1)

\* the head of the while loop without `iteration += 1`
DriverWhile_same_lap(t) ==
    LET th == threads[t]
    IN /\ Alive(t) /\ th.pc = "while" /\ th.timer = 0
       /\ running => th.iteration < MaxLaps
       /\ threads' = [threads EXCEPT ![t] =
            IF running
            THEN ForI([th EXCEPT !.susp = "none", !.firstRead = "true",
                                 !.iteration = Max(1, @),
                                 !.stopped_at_stops = {},
                                 !.dwells = [k \in 1..Len(th.cfg.bus_stops) |-> 0]],
                      0)
            ELSE [th EXCEPT !.susp = "none", !.state = "done", !.pc = "exit"]]
       /\ UNCHANGED <<running, main, sent, clock, env, probe, service>>

\* the head of the while loop without `stopped_at_stops.clear()`
DriverWhile_keeps_visited(t) ==
    LET th == threads[t]
        seen == [th EXCEPT !.susp = "none",
                   !.firstRead = IF @ # "none" THEN @
                                 ELSE IF running THEN "true"
                                 ELSE IF clock.stopSinceStart THEN "false_stopped"
                                 ELSE "false"]
    IN /\ Alive(t) /\ th.pc = "while" /\ th.timer = 0
       /\ running => th.iteration < MaxLaps
       /\ threads' = [threads EXCEPT ![t] =
            IF running
            THEN ForI([seen EXCEPT !.iteration = @ + 1,
                                   !.dwells = [k \in 1..Len(th.cfg.bus_stops) |-> 0]],
                      0)
            ELSE [seen EXCEPT !.state = "done", !.pc = "exit"]]
       /\ UNCHANGED <<running, main, sent, clock, env, probe, service>>

\* the head of the while loop: the flag is read, a lap begins or the
\* thread ends
DriverWhile(t) ==
    LET th == threads[t]
        seen == [th EXCEPT !.susp = "none",
                   !.firstRead = IF @ # "none" THEN @
                                 ELSE IF running THEN "true"
                                 ELSE IF clock.stopSinceStart THEN "false_stopped"
                                 ELSE "false"]
    IN /\ Alive(t) /\ th.pc = "while" /\ th.timer = 0
       /\ running => th.iteration < MaxLaps
       /\ threads' = [threads EXCEPT ![t] =
            IF running
            THEN ForI([seen EXCEPT !.iteration = @ + 1,
                                   !.stopped_at_stops = {},
                                   !.dwells = [k \in 1..Len(th.cfg.bus_stops) |-> 0]],
                      0)
            ELSE [seen EXCEPT !.state = "done", !.pc = "exit"]]
       /\ UNCHANGED <<running, main, sent, clock, env, probe, service>>

\* a driver that clears the flag of the fleet when it fails
DriverSegment_fault_stops_fleet(t) ==
    LET th == threads[t]
        fails == /\ running /\ SegmentDistance(th) >= EPSILON * EPSILON
                 /\ (th.cfg.speed_kmh = 0 \/ th.cfg.update_interval = 0)
    IN /\ Alive(t) /\ th.pc = "for_i" /\ th.timer = 0
       /\ threads' = [threads EXCEPT ![t] =
            IF ~running THEN [th EXCEPT !.pc = "lap_end"]
            ELSE IF SegmentDistance(th) < EPSILON * EPSILON
            THEN ForI(th, th.i + 1)
            ELSE IF fails THEN Crash(th, "ZeroDivisionError")
            ELSE [th EXCEPT !.pc = "for_step", !.step = 0]]
       /\ running' = IF fails THEN FALSE ELSE running
       /\ UNCHANGED <<main, sent, clock, env, probe, service>>

\* a short segment is traversed like any other
DriverSegment_no_skip(t) ==
    LET th == threads[t]
    IN /\ Alive(t) /\ th.pc = "for_i" /\ th.timer = 0
       /\ threads' = [threads EXCEPT ![t] =
            IF ~running THEN [th EXCEPT !.pc = "lap_end"]
            ELSE IF th.cfg.speed_kmh = 0 \/ th.cfg.update_interval = 0
            THEN Crash(th, "ZeroDivisionError")
            ELSE [th EXCEPT !.pc = "for_step", !.step = 0]]
       /\ UNCHANGED <<running, main, sent, clock, env, probe, service>>

\* one turn of the loop over the segments, up to the loop over the steps
DriverSegment(t) ==
    LET th == threads[t]
    IN /\ Alive(t) /\ th.pc = "for_i" /\ th.timer = 0
       /\ threads' = [threads EXCEPT ![t] =
            IF ~running THEN [th EXCEPT !.pc = "lap_end"]
            ELSE IF SegmentDistance(th) < EPSILON * EPSILON
            THEN ForI(th, th.i + 1)
            ELSE IF th.cfg.speed_kmh = 0 \/ th.cfg.update_interval = 0
            THEN Crash(th, "ZeroDivisionError")
            ELSE [th EXCEPT !.pc = "for_step", !.step = 0]]
       /\ UNCHANGED <<running, main, sent, clock, env, probe, service>>

\* one turn of the loop over the steps: the flag is read, the position is
\* computed and a sample is sent, `stopped` before a dwell, else `moving`
DriverStep(t) ==
    LET th == [threads[t] EXCEPT !.susp = "none"]
        cfg == th.cfg
    IN /\ Alive(t) /\ th.pc = "for_step" /\ th.timer = 0
       /\ IF ~running
          THEN /\ threads' = [threads EXCEPT ![t] = ForI(th, th.i + 1)]
               /\ UNCHANGED sent
          ELSE \E noise \in NoiseChoices, jitter \in JitterChoices,
                  outcome \in env.outcomes :
               LET current_pos == interpolate_position(cfg.route[th.i + 1],
                                      cfg.route[th.i + 2], th.step, NumUpdates(th))
                   lat_noise == noise[1]
                   lon_noise == noise[2]
                   lat == current_pos[1] + lat_noise
                   lon == current_pos[2] + lon_noise
                   stop_idx == find_nearest_stop_index(<<lat, lon>>, cfg.bus_stops)
               IN IF stop_idx # -1 /\ stop_idx \notin th.stopped_at_stops
                  THEN LET r == send_location_update(
                                    Sample(t, lat, lon, 0, "stopped", "dwell",
                                           th.i, th.step), outcome)
                           at == [th EXCEPT
                                    !.stopped_at_stops = MarkVisited(@, stop_idx),
                                    !.dwells[stop_idx + 1] = @ + 1]
                           rep == Reported(at, r)
                       IN /\ threads' = [threads EXCEPT ![t] =
                                IF rep.state # "alive" THEN rep
                                ELSE [rep EXCEPT !.pc = "resume", !.lat = lat,
                                        !.lon = lon,
                                        !.timer = cfg.stop_duration,
                                        !.susp = "dwell"]]
                          /\ sent' = Posted(r)
                  ELSE LET r == send_location_update(
                                    Sample(t, lat, lon,
                                           Max(0, cfg.speed_kmh + jitter),
                                           "moving", "normal", th.i, th.step),
                                    outcome)
                       IN /\ threads' = [threads EXCEPT ![t] =
                                AfterSample(Reported(th, r))]
                          /\ sent' = Posted(r)
       /\ UNCHANGED <<running, main, clock, env, probe, service>>

\* the resuming sample at a position with noise of its own
DriverResume_new_noise(t) ==
    LET th == [threads[t] EXCEPT !.susp = "none"]
        cfg == th.cfg
    IN /\ Alive(t) /\ th.pc = "resume" /\ th.timer = 0
       /\ \E noise \in NoiseChoices, jitter \in JitterChoices,
              outcome \in env.outcomes :
            LET r == send_location_update(
                        Sample(t, th.lat + noise[1], th.lon + noise[2],
                               cfg.speed_kmh + jitter, "moving",
                               "resume", th.i, th.step),
                        outcome)
            IN /\ threads' = [threads EXCEPT ![t] =
                    AfterSample([Reported(th, r) EXCEPT !.lat = 0, !.lon = 0])]
               /\ sent' = Posted(r)
       /\ UNCHANGED <<running, main, clock, env, probe, service>>

\* after the dwell: the resuming sample, at the position of the `stopped` one
DriverResume(t) ==
    LET th == [threads[t] EXCEPT !.susp = "none"]
        cfg == th.cfg
    IN /\ Alive(t) /\ th.pc = "resume" /\ th.timer = 0
       /\ \E jitter \in JitterChoices, outcome \in env.outcomes :
            LET r == send_location_update(
                        Sample(t, th.lat, th.lon, cfg.speed_kmh + jitter, "moving",
                               "resume", th.i, th.step),
                        outcome)
            IN /\ threads' = [threads EXCEPT ![t] =
                    AfterSample([Reported(th, r) EXCEPT !.lat = 0, !.lon = 0])]
               /\ sent' = Posted(r)
       /\ UNCHANGED <<running, main, clock, env, probe, service>>

\* route[0]
LastWaypoint_first(route) == route[1]

\* route[-1]
LastWaypoint(route) == route[Len(route)]

\* no pause after a lap in which nothing was sent
DriverLapEnd_idle_lap_no_pause(t) ==
    LET th == threads[t]
        cfg == th.cfg
    IN /\ Alive(t) /\ th.pc = "lap_end" /\ th.timer = 0
       /\ IF cfg.loop
          THEN /\ threads' = [threads EXCEPT ![t] =
                    IF th.emitted = 0
                    THEN [th EXCEPT !.pc = "while"]
                    ELSE [th EXCEPT !.pc = "while", !.timer = LAP_PAUSE,
                                    !.susp = "pause"]]
               /\ UNCHANGED sent
          ELSE IF Len(cfg.route) = 0
          THEN /\ threads' = [threads EXCEPT ![t] = Crash(th, "IndexError")]
               /\ UNCHANGED sent
          ELSE \E outcome \in env.outcomes :
               LET last == LastWaypoint(cfg.route)
                   r == send_location_update(
                            Sample(t, last[1], last[2], 0, "completed", "final",
                                   th.i, 0), outcome)
                   rep == Reported(th, r)
               IN /\ threads' = [threads EXCEPT ![t] =
                        IF rep.state # "alive" THEN rep
                        ELSE [rep EXCEPT !.state = "done", !.pc = "exit"]]
                  /\ sent' = Posted(r)
       /\ UNCHANGED <<running, main, clock, env, probe, service>>

\* a vehicle that has completed its route clears the flag of the fleet
DriverLapEnd_completed_stops_fleet(t) ==
    LET th == threads[t]
        cfg == th.cfg
    IN /\ Alive(t) /\ th.pc = "lap_end" /\ th.timer = 0
       /\ IF cfg.loop
          THEN /\ threads' = [threads EXCEPT ![t] =
                    [th EXCEPT !.pc = "while", !.timer = LAP_PAUSE,
                               !.susp = "pause"]]
               /\ UNCHANGED <<sent, running>>
          ELSE IF Len(cfg.route) = 0
          THEN /\ threads' = [threads EXCEPT ![t] = Crash(th, "IndexError")]
               /\ UNCHANGED <<sent, running>>
          ELSE \E outcome \in env.outcomes :
               LET last == LastWaypoint(cfg.route)
                   r == send_location_update(
                            Sample(t, last[1], last[2], 0, "completed", "final",
                                   th.i, 0), outcome)
                   rep == Reported(th, r)
               IN /\ threads' = [threads EXCEPT ![t] =
                        IF rep.state # "alive" THEN rep
                        ELSE [rep EXCEPT !.state = "done", !.pc = "exit"]]
                  /\ sent' = Posted(r)
                  /\ running' = FALSE
       /\ UNCHANGED <<main, clock, env, probe, service>>

\* after the loop over the segments: the `completed` sample and the end of
\* the thread, or the pause before the next lap
DriverLapEnd(t) ==
    LET th == threads[t]
        cfg == th.cfg
    IN /\ Alive(t) /\ th.pc = "lap_end" /\ th.timer = 0
       /\ IF cfg.loop
          THEN /\ threads' = [threads EXCEPT ![t] =
                    [th EXCEPT !.pc = "while", !.timer = LAP_PAUSE,
                               !.susp = "pause"]]
               /\ UNCHANGED sent
          ELSE IF Len(cfg.route) = 0
          THEN /\ threads' = [threads EXCEPT ![t] = Crash(th, "IndexError")]
               /\ UNCHANGED sent
          ELSE \E outcome \in env.outcomes :
               LET last == LastWaypoint(cfg.route)
                   r == send_location_update(
                            Sample(t, last[1], last[2], 0, "completed", "final",
                                   th.i, 0), outcome)
                   rep == Reported(th, r)
               IN /\ threads' = [threads EXCEPT ![t] =
                        IF rep.state # "alive" THEN rep
                        ELSE [rep EXCEPT !.state = "done", !.pc = "exit"]]
                  /\ sent' = Posted(r)
       /\ UNCHANGED <<running, main, clock, env, probe, service>>

\* ------------------------------------------------------------------ time
\* a driver that has a step to take now
Ready(t) ==
    /\ Alive(t)
    /\ threads[t].timer = 0
    /\ ~(threads[t].pc = "while" /\ running /\ threads[t].iteration >= MaxLaps)

MainReady ==
    \/ main.pc \in {"start", "stop"} /\ main.timer = 0
    \/ main.pc = "join" /\ (main.timer = 0 \/ ~Alive(main.i))

Timers ==
    {threads[t].timer : t \in {u \in 1..Len(threads) : Alive(u)}}
        \cup {main.timer}

\* time passes up to the next wake-up, when no thread has a step to take
Tick ==
    /\ ~MainReady
    /\ \A t \in 1..Len(threads) : ~Ready(t)
    /\ \E d \in Timers \ {0} :
        /\ \A e \in Timers \ {0} : d <= e
        /\ threads' = [t \in 1..Len(threads) |->
                [threads[t] EXCEPT !.timer = IF Alive(t) /\ @ > 0 THEN @ - d ELSE @]]
        /\ main' = [main EXCEPT
                !.timer = IF @ > 0 THEN @ - d ELSE @,
                !.waited = IF main.pc = "join" THEN @ + d ELSE @]
        /\ clock' = IF main.pc = "idle" /\ main.last = "start_ok"
                    THEN Halted
                    ELSE [clock EXCEPT !.elapsed =
                            IF clock.counting THEN Min(CapTime, @ + d) ELSE @]
    /\ UNCHANGED <<running, sent, env, probe, service>>

Next ==
    \/ \E cfg \in env.menu : add_vehicle(cfg)
    \/ start_begin
    \/ start_launch
    \/ start_return
    \/ stop_begin
    \/ stop_join
    \/ stop_joined
    \/ stop_return
    \/ \E t \in 1..Len(threads) : DriverWhile(t)
    \/ \E t \in 1..Len(threads) : DriverSegment(t)
    \/ \E t \in 1..Len(threads) : DriverStep(t)
    \/ \E t \in 1..Len(threads) : DriverResume(t)
    \/ \E t \in 1..Len(threads) : DriverLapEnd(t)
    \/ Tick

Spec == Init /\ [][Next]_vars

InitDriver == InitWith(DriverEnv)

SpecDriver == InitDriver /\ [][Next]_vars

InitTrip == InitWith(TripEnv)

SpecTrip == InitTrip /\ [][Next]_vars

InitFault == InitWith(FaultEnv)

SpecFault == InitFault /\ [][Next]_vars

InitEdge == InitWith(EdgeEnv)

SpecEdge == InitEdge /\ [][Next]_vars

\* --------------------------------------------- the functions on their own
\* Python's float is binary floating point rounded to nearest, ties to even.
\* A float is held as a whole number of units of 1 / FloatScale, with
\* MantissaBits significant bits in place of 53.
RECURSIVE Pow2(_)
Pow2(n) == IF n = 0 THEN 1 ELSE 2 * Pow2(n - 1)

FloatScale == Pow2(MantissaBits)

Abs(x) == IF x < 0 THEN -x ELSE x

\* the spacing of the floats at the magnitude q
RECURSIVE Ulp(_)
Ulp(q) == IF q < Pow2(MantissaBits) THEN 1 ELSE 2 * Ulp(q \div 2)

\* the float nearest to num / den (den > 0), ties to the even mantissa
RoundQ(num, den) ==
    LET n == Abs(num)
        u == Ulp(n \div den)
        low == ((n \div den) \div u) * u
        rem == n - low * den
        mag == IF 2 * rem < u * den THEN low
               ELSE IF 2 * rem > u * den THEN low + u
               ELSE IF (low \div u) % 2 = 0 THEN low ELSE low + u
    IN IF num < 0 THEN -mag ELSE mag

float_add(x, y) == RoundQ(x + y, 1)
float_sub(x, y) == RoundQ(x - y, 1)
float_mul(x, y) == RoundQ(x * y, FloatScale)

\* interpolate_position on floats: start + (end - start) * fraction
interpolate_position_float(start, end, fraction) ==
    << float_add(start[1], float_mul(float_sub(end[1], start[1]), fraction)),
       float_add(start[2], float_mul(float_sub(end[2], start[2]), fraction)) >>

\* the floats that are whole coordinates from 0 to MaxCoord
FloatCoords ==
    {c * FloatScale : c \in {d \in 0..MaxCoord :
                                RoundQ(d * FloatScale, 1) = d * FloatScale}}

\* the fractions 0, 1/FloatScale, .., 1
Fractions == 0..FloatScale

\* the arguments the functions are examined on
InterpolateArgs ==
    {<<a, b, f>> : a \in FloatCoords \X {0},
                   b \in FloatCoords \X {FloatScale},
                   f \in Fractions}

RECURSIVE StopLists(_)
StopLists(n) ==
    IF n = 0 THEN {<< >>}
    ELSE LET shorter == StopLists(n - 1)
         IN shorter \cup
            {Append(l, p) : l \in {m \in shorter : Len(m) = n - 1},
                            p \in {<<0, 0>>, <<0, 2 * THRESHOLD>>,
                                    <<1, 2 * THRESHOLD>>}}

FindArgs ==
    {<<pos, stops, thr>> :
        pos \in {<<0, y>> : y \in {THRESHOLD - 1, THRESHOLD, THRESHOLD + 1,
                                    2 * THRESHOLD + 1}},
        stops \in StopLists(MaxStops),
        thr \in {THRESHOLD, 2 * THRESHOLD}}

InitMath ==
    /\ InitProgram(FleetEnv)
    /\ \/ \E x \in InterpolateArgs :
            probe = [op |-> "interpolate_position", args |-> x,
                     result |-> << >>]
       \/ \E x \in FindArgs :
            probe = [op |-> "find_nearest_stop_index", args |-> x,
                     result |-> << >>]

\* interpolate_position is called
call_interpolate_position ==
    /\ probe.op = "interpolate_position" /\ probe.result = << >>
    /\ probe' = [probe EXCEPT !.result =
            <<interpolate_position_float(probe.args[1], probe.args[2],
                                         probe.args[3])>>]
    /\ UNCHANGED <<running, threads, main, sent, clock, env, service>>

\* find_nearest_stop_index is called
call_find_nearest_stop_index ==
    /\ probe.op = "find_nearest_stop_index" /\ probe.result = << >>
    /\ probe' = [probe EXCEPT !.result =
            <<FirstNear(probe.args[1], probe.args[2], probe.args[3], 0)>>]
    /\ UNCHANGED <<running, threads, main, sent, clock, env, service>>

NextMath ==
    \/ call_interpolate_position
    \/ call_find_nearest_stop_index

SpecMath == InitMath /\ [][NextMath]_vars

\* ------------------------------------------------------ tracking service
\* A task is a request being handled: op the handler, pc the await it is
\* suspended at ("done" when it has answered, status_code the answer).
\* During ConnectionManager.broadcast, si_used is the size of the set when
\* the iteration began, visited the connections the iterator has yielded,
\* cur the one being sent to, dead the local dead_connections.
NewTask(op, vehicle_id, pc) ==
    [op |-> op, vehicle_id |-> vehicle_id, pc |-> pc, status_code |-> 0,
     detail |-> "none", si_used |-> 0, visited |-> {}, cur |-> 0, dead |-> {}]

\* the handler answers
Answer(tk, status_code, detail) ==
    [tk EXCEPT !.pc = "done", !.status_code = status_code, !.detail = detail,
               !.si_used = 0, !.visited = {}, !.cur = 0, !.dead = {}]

Program == <<running, threads, main, sent, clock, env, probe>>

\* POST /vehicles up to its first await: db.vehicles.find_one
register_vehicle_begin(vehicle_id) ==
    /\ Len(service.tasks) < MaxRequests
    /\ service' = [service EXCEPT !.tasks = Append(@,
            IF service.vehicles[vehicle_id] # "absent"
            THEN Answer(NewTask("register_vehicle", vehicle_id, "start"),
                        400, "Vehicle already exists")
            ELSE NewTask("register_vehicle", vehicle_id, "insert_one"))]
    /\ UNCHANGED Program

\* db.vehicles.insert_one, under the unique index on vehicle_id
register_vehicle_insert(k) ==
    LET tk == service.tasks[k]
    IN /\ tk.op = "register_vehicle" /\ tk.pc = "insert_one"
       /\ service' =
            IF service.vehicles[tk.vehicle_id] # "absent"
            THEN [service EXCEPT !.tasks[k] = Answer(tk, 500, "DuplicateKeyError")]
            ELSE [service EXCEPT !.vehicles[tk.vehicle_id] = "inactive",
                                 !.tasks[k] = Answer(tk, 200, "ok")]
       /\ UNCHANGED Program

\* DELETE /vehicles/{vehicle_id} up to the answer of db.vehicles.delete_one
delete_vehicle_begin(vehicle_id) ==
    /\ Len(service.tasks) < MaxRequests
    /\ service' =
        IF service.vehicles[vehicle_id] = "absent"
        THEN [service EXCEPT !.tasks = Append(@,
                Answer(NewTask("delete_vehicle", vehicle_id, "start"),
                       404, "Vehicle not found"))]
        ELSE [service EXCEPT !.vehicles[vehicle_id] = "absent",
                !.tasks = Append(@,
                    NewTask("delete_vehicle", vehicle_id, "delete_many"))]
    /\ UNCHANGED Program

\* db.positions.delete_many and the answer
delete_vehicle_positions(k) ==
    LET tk == service.tasks[k]
    IN /\ tk.op = "delete_vehicle" /\ tk.pc = "delete_many"
       /\ service' = [service EXCEPT !.positions = @ \ {tk.vehicle_id},
                                     !.tasks[k] = Answer(tk, 200, "ok")]
       /\ UNCHANGED Program

\* POST /update_location up to the answer of db.vehicles.find_one
update_location_begin(vehicle_id) ==
    /\ Len(service.tasks) < MaxRequests
    /\ service' = [service EXCEPT !.tasks = Append(@,
            IF service.vehicles[vehicle_id] = "absent"
            THEN Answer(NewTask("update_location", vehicle_id, "start"),
                        404, "Vehicle not found")
            ELSE NewTask("update_location", vehicle_id, "update_one"))]
    /\ UNCHANGED Program

\* db.positions.update_one(..., upsert=True)
update_location_upsert(k) ==
    LET tk == service.tasks[k]
    IN /\ tk.op = "update_location" /\ tk.pc = "update_one"
       /\ service' = [service EXCEPT !.positions = @ \cup {tk.vehicle_id},
                                     !.tasks[k].pc = "set_active"]
       /\ UNCHANGED Program

\* The for statement of ConnectionManager.broadcast asks the set iterator
\* for its next element: RuntimeError (Set changed size during iteration)
\* when the set has not the size it had when the iteration began, which
\* the handler does not catch; at the end of the iteration the dead
\* connections are removed and update_location answers; else the task is
\* suspended in send_json to the connection yielded.
broadcast_next(svc, k, tk) ==
    IF Cardinality(svc.active_connections) # tk.si_used
    THEN service' = [svc EXCEPT !.tasks[k] = Answer(tk, 500, "RuntimeError")]
    ELSE IF svc.active_connections \ tk.visited = {}
    THEN service' = [svc EXCEPT !.active_connections = @ \ tk.dead,
                                !.tasks[k] = Answer(tk, 200, "ok")]
    ELSE \E c \in svc.active_connections \ tk.visited :
            service' = [svc EXCEPT !.tasks[k] =
                [tk EXCEPT !.pc = "send_json", !.cur = c,
                           !.visited = @ \cup {c}]]

\* db.vehicles.update_one sets the status of the vehicle, if it is there,
\* to active; then manager.broadcast runs up to its first send
update_location_activate(k) ==
    LET tk == service.tasks[k]
        svc == [service EXCEPT !.vehicles[tk.vehicle_id] =
                    IF @ = "absent" THEN @ ELSE "active"]
    IN /\ tk.op = "update_location" /\ tk.pc = "set_active"
       /\ broadcast_next(svc, k,
            [tk EXCEPT !.si_used = Cardinality(svc.active_connections)])
       /\ UNCHANGED Program

\* connection.send_json ends: sent, or failed on a connection whose client
\* has gone, which is added to dead_connections; the loop goes on
broadcast_send(k) ==
    LET tk == service.tasks[k]
    IN /\ tk.op = "update_location" /\ tk.pc = "send_json"
       /\ broadcast_next(service, k,
            IF service.clients[tk.cur] = "open"
            THEN [tk EXCEPT !.cur = 0]
            ELSE [tk EXCEPT !.cur = 0, !.dead = @ \cup {tk.cur}])
       /\ UNCHANGED Program

\* websocket_endpoint: manager.connect accepts the client and adds it
websocket_endpoint_connect(c) ==
    /\ service.clients[c] = "idle"
    /\ service' = [service EXCEPT !.clients[c] = "open",
                                  !.active_connections = @ \cup {c}]
    /\ UNCHANGED Program

\* the client closes its connection
client_close(c) ==
    /\ service.clients[c] = "open"
    /\ service' = [service EXCEPT !.clients[c] = "closed"]
    /\ UNCHANGED Program

\* websocket_endpoint: receive_text raises WebSocketDisconnect and
\* manager.disconnect discards the connection
websocket_endpoint_disconnect(c) ==
    /\ service.clients[c] = "closed"
    /\ service' = [service EXCEPT !.clients[c] = "idle",
                                  !.active_connections = @ \ {c}]
    /\ UNCHANGED Program

NextService ==
    \/ \E v \in VehicleIds : register_vehicle_begin(v)
    \/ \E k \in 1..Len(service.tasks) : register_vehicle_insert(k)
    \/ \E v \in VehicleIds : delete_vehicle_begin(v)
    \/ \E k \in 1..Len(service.tasks) : delete_vehicle_positions(k)
    \/ \E v \in VehicleIds : update_location_begin(v)
    \/ \E k \in 1..Len(service.tasks) : update_location_upsert(k)
    \/ \E k \in 1..Len(service.tasks) : update_location_activate(k)
    \/ \E k \in 1..Len(service.tasks) : broadcast_send(k)
    \/ \E c \in Clients : websocket_endpoint_connect(c)
    \/ \E c \in Clients : client_close(c)
    \/ \E c \in Clients : websocket_endpoint_disconnect(c)

SpecService == Init /\ [][NextService]_vars


\* ================================================================ claims
Threads == 1..Len(threads)

\* the fleet registry: the configuration of every registered vehicle
Registry == [t \in Threads |-> threads[t].cfg]

\* C1: within one lap, no stop index has more than one `stopped` sample,
\* however often later steps of the lap come within its threshold again
C1_DwellOncePerLap ==
    \A t \in Threads : \A k \in DOMAIN threads[t].dwells :
        threads[t].dwells[k] <= 1

\* a `moving` sample of a later segment, sent within the threshold of a stop
\* the lap has dwelled at already
C1_ReentryWitness ==
    \E t \in Threads :
        /\ sent.thread = t /\ sent.site = "normal" /\ sent.i = 1
        /\ threads[t].i = 1 /\ threads[t].pc = "for_step"
        /\ find_nearest_stop_index(<<sent.lat, sent.lon>>,
                                   threads[t].cfg.bus_stops) = 0
        /\ 0 \in threads[t].stopped_at_stops
        /\ threads[t].dwells[1] = 1

\* C2: when stop() follows start() at once, every driver has ended once
\* more than STAGGER * N + JOIN_TIMEOUT seconds have passed since start()
C2_EndedWithinBound ==
    (clock.counting /\ clock.stopSinceStart
        /\ clock.elapsed > STAGGER * Len(threads) + JOIN_TIMEOUT)
    => \A t \in Threads : ~Alive(t)

\* C3: every sample is one request, never retried, and no driver ends on
\* the failure of a request
C3_SendOnceAndReturn ==
    /\ \A t \in Threads :
        /\ threads[t].posts = threads[t].emitted
        /\ threads[t].fault # "RequestException"
    /\ sent.status # "none" => sent.attempts = 1

\* a driver asleep between two steps of a segment after a request failed
C3_ContinuesAfterFailure ==
    \E t \in Threads :
        /\ Alive(t) /\ threads[t].failures = 1
        /\ threads[t].pc = "for_step" /\ threads[t].step >= 1
        /\ threads[t].timer > 0

\* C4: stop() clears the flag first, waits at most JOIN_TIMEOUT per thread
\* and so at most N * JOIN_TIMEOUT in all, ends no thread itself, and is
\* cut short only by the RuntimeError of joining a thread never started
C4_StopBoundedWait ==
    /\ main.pc \in {"stop", "join"} => ~running
    /\ main.joins <= Len(threads)
    /\ main.waited <= JOIN_TIMEOUT * main.joins
    /\ main.pc = "join" => main.timer <= JOIN_TIMEOUT /\ main.i <= Len(threads)
    /\ \A t \in Threads :
        threads[t].state \in {"done", "crashed"} => threads[t].pc = "exit"
    /\ (main.pc = "idle" /\ main.last = "stop_RuntimeError")
        => \E t \in Threads : threads[t].state = "new"

\* stop() is about to return after N * JOIN_TIMEOUT seconds of waiting, and
\* both drivers still run
C4_AbandonedWitness ==
    /\ Len(threads) = 2
    /\ main.pc = "stop" /\ main.i > Len(threads)
    /\ main.waited = JOIN_TIMEOUT * Len(threads)
    /\ \A t \in Threads : Alive(t)

\* C5: a stop() that follows a stop() that returned returns too, leaves the
\* flag false, launches no thread and changes no thread by its own steps
C5_StopIdempotent ==
    [][(main.pc \in {"stop", "join"} /\ main.last = "stop_ok")
        => /\ main'.last = "stop_ok"
           /\ ~running'
           /\ Len(threads') = Len(threads)
           /\ \A t \in Threads :
                threads[t].state = "new" => threads'[t].state = "new"
           /\ (main'.pc # main.pc \/ main'.i # main.i) => threads' = threads
      ]_vars

\* the second of two stop() calls is about to return, a driver still running
C5_SecondStopWitness ==
    /\ main.pc = "stop" /\ main.last = "stop_ok"
    /\ main.i > Len(threads)
    /\ \E t \in Threads : Alive(t)
    /\ \E t \in Threads : threads[t].state = "done"

\* C6: no driver reads running = FALSE at its first check unless stop() was
\* called after the start() that launched it had set the flag
C6_FirstCheckSeesFlag ==
    \A t \in Threads : threads[t].firstRead # "false"

\* both drivers of a fleet of two have read the flag, and read TRUE
C6_BothReadTrue ==
    /\ Len(threads) = 2
    /\ \A t \in Threads : threads[t].firstRead = "true"

\* C7: start() launches the threads in registration order, each once, and
\* sleeps after each launch but the last: N - 1 delays for N vehicles
C7_LaunchOrderAndStagger ==
    main.pc = "start" =>
        /\ Len(main.launched) = main.i - 1
        /\ \A k \in 1..Len(main.launched) :
              main.launched[k] = k /\ threads[k].state # "new"
        /\ main.delays = Min(main.i - 1, Max(0, Len(threads) - 1))
        /\ main.timer > 0 => main.i <= Len(threads)

\* start() is about to return from launching two vehicles
C7_TwoLaunchedWitness ==
    /\ main.pc = "start" /\ Len(threads) = 2 /\ main.i = 3
    /\ main.launched = <<1, 2>> /\ main.delays = 1 /\ main.timer = 0

\* C8: while the fleet is running the registry does not change
C8_RegistryFrozenWhileRunning ==
    [][running => Registry' = Registry]_vars

\* C9: no driver is started for a route of fewer than 2 waypoints
C9_ShortRouteNeverDriven ==
    \A t \in Threads :
        Len(threads[t].cfg.route) < 2 => threads[t].state = "new"

\* C10: the flag is never true after a stop()
C10_NeverTrueAfterStop ==
    ~(clock.everStopped /\ running)

\* n = max(1, floor(distance / speed * 3600 / interval)), the distance being
\* the root of d2 in units of 1 / UnitsPerKm km; both sides are over 400
SampleCountIs(n, d2, speed, interval) ==
    LET k == speed * interval * (UnitsPerKm \div 400)
        h == 3600 \div 400
    IN /\ n >= 1
       /\ ((n + 1) * k) * ((n + 1) * k) > h * h * d2
       /\ n > 1 => (n * k) * (n * k) <= h * h * d2

\* the driver t sends a sample in this step
Emits(t) == threads'[t].emitted = threads[t].emitted + 1

\* C11: a segment that is not skipped is sampled at the steps 0, 1, ..,
\* sampleCount in turn, one step sample each, at the fraction
\* step / sampleCount of the segment (plus the noise), where sampleCount =
\* max(1, floor(distance / speed * 3600 / interval)); a travel time of ten
\* intervals (100 m at 36 km/h, an interval of 1 s) gives sampleCount 10
C11_StepsOfSegment ==
    [][\A t \in Threads :
        LET th == threads[t]
            nx == threads'[t]
        IN /\ (th.pc = "for_i" /\ nx.pc = "for_step")
                => /\ nx.step = 0 /\ nx.i = th.i
                   /\ SampleCountIs(NumUpdates(nx), SegmentDistance(nx),
                                    nx.cfg.speed_kmh, nx.cfg.update_interval)
           /\ (th.pc \in {"for_step", "resume"} /\ nx.pc = "for_step")
                => /\ nx.i = th.i
                   /\ nx.step = IF Emits(t) THEN th.step + 1 ELSE th.step
                   /\ nx.step <= NumUpdates(th)
           /\ (th.pc \in {"for_step", "resume"} /\ Emits(t)
                    /\ nx.pc \in {"for_i", "lap_end"})
                => th.step = NumUpdates(th)
           /\ (th.pc = "for_step" /\ Emits(t))
                => /\ sent'.step = th.step /\ sent'.i = th.i
                   /\ th.step \in 0..NumUpdates(th)
                   /\ \E noise \in NoiseChoices :
                        LET at == interpolate_position(th.cfg.route[th.i + 1],
                                      th.cfg.route[th.i + 2], th.step,
                                      NumUpdates(th))
                        IN /\ sent'.lat = at[1] + noise[1]
                           /\ sent'.lon = at[2] + noise[2]
                           /\ th.step = 0 => at = th.cfg.route[th.i + 1]
                           /\ th.step = NumUpdates(th)
                                => at = th.cfg.route[th.i + 2]
      ]_vars
    /\ num_updates_of(calculate_distance(0, 0, 0, UnitsPerKm \div 10), 36, 1) = 10

\* a segment of sampleCount 2 has been left after its third step sample
C11_ThreeStepsWitness ==
    \E t \in Threads :
        /\ threads[t].cfg.route = ROUTE_TRIP
        /\ threads[t].pc = "lap_end" /\ threads[t].i = 1
        /\ sent.thread = t /\ sent.site = "normal" /\ sent.step = 2
        /\ <<sent.lat, sent.lon>> = ROUTE_TRIP[2]
        /\ num_updates_of(calculate_distance(0, 0, 0, 1600), 36, 4) = 2

\* a vehicle that does not loop, on one segment with one stop, in a run
\* that stop() has not interrupted
OneStopTrip(t) ==
    /\ ~threads[t].cfg.loop
    /\ Len(threads[t].cfg.route) = 2
    /\ Len(threads[t].cfg.bus_stops) = 1
    /\ ~clock.everStopped

\* the sample counts of the only segment of the route of t
TripSampleCount(t) ==
    LET cfg == threads[t].cfg
    IN num_updates_of(calculate_distance(cfg.route[1][1], cfg.route[1][2],
                                         cfg.route[2][1], cfg.route[2][2]),
                      cfg.speed_kmh, cfg.update_interval)

\* the order of the samples of the trip: `moving` step samples, the
\* `stopped` sample of the only dwell, its resuming `moving` sample, `moving`
\* step samples, the `completed` sample
TripOrder ==
    [][\A t \in Threads : (OneStopTrip(t) /\ Emits(t)) =>
        /\ <<sent.site, sent'.site>> \in
                { <<"none", "normal">>, <<"none", "dwell">>,
                  <<"normal", "normal">>, <<"normal", "dwell">>,
                  <<"dwell", "resume">>, <<"resume", "normal">>,
                  <<"resume", "final">>, <<"normal", "final">> }
        /\ sent'.status = CASE sent'.site = "dwell" -> "stopped"
                             [] sent'.site = "final" -> "completed"
                             [] OTHER -> "moving"
        /\ sent'.site = "dwell" => threads[t].dwells = <<0>>
        /\ sent'.site = "final" => threads[t].dwells = <<1>>
      ]_vars

\* C12 as stated, the segment sample count being sampleCount: the trip
\* with one stop sends its samples in order and sampleCount + 2 of them
C12_TotalIsSampleCountPlusTwo ==
    /\ TripOrder
    /\ [](\A t \in Threads :
            (OneStopTrip(t) /\ threads[t].state = "done")
                => /\ threads[t].emitted = TripSampleCount(t) + 2
                   /\ threads[t].dwells = <<1>>)

\* C12, amended: the trip with one stop sends its samples in order, one
\* `stopped` sample among them, and (sampleCount + 1) + 2 in all: the
\* sampleCount + 1 step samples, the resuming sample, the `completed` one
C12_TotalIsStepsPlusTwo ==
    /\ TripOrder
    /\ [](\A t \in Threads :
            (OneStopTrip(t) /\ threads[t].state = "done")
                => /\ threads[t].emitted = (TripSampleCount(t) + 1) + 2
                   /\ threads[t].dwells = <<1>>)

\* the trip has ended with its `completed` sample, the fifth, the dwell
\* having been at the midpoint
C12_TripDoneWitness ==
    \E t \in Threads :
        /\ OneStopTrip(t) /\ threads[t].state = "done"
        /\ threads[t].cfg.bus_stops = STOPS_HALF
        /\ TripSampleCount(t) = 2 /\ threads[t].emitted = 5
        /\ sent.site = "final" /\ sent.status = "completed"
        /\ threads[t].stopped_at_stops = {0}

\* C13: a vehicle without stops never dwells and never sends `stopped`:
\* its samples are `moving`, but for the `completed` sample that ends a
\* vehicle that does not loop
C13_NoStopsNoDwell ==
    \A t \in Threads : threads[t].cfg.bus_stops = << >> =>
        /\ threads[t].pc # "resume" /\ threads[t].susp # "dwell"
        /\ threads[t].stopped_at_stops = {}
        /\ \A k \in DOMAIN threads[t].dwells : FALSE
        /\ sent.thread = t =>
            /\ sent.status \in {"moving", "completed"}
            /\ sent.status = "moving" => sent.site = "normal"
            /\ sent.status = "completed" =>
                    ~threads[t].cfg.loop /\ threads[t].state = "done"

\* a looping vehicle without stops is at the last step of its second lap
C13_SecondLapWitness ==
    \E t \in Threads :
        /\ threads[t].cfg.bus_stops = << >> /\ threads[t].cfg.loop
        /\ threads[t].iteration = 2 /\ threads[t].pc = "lap_end"
        /\ sent.thread = t /\ sent.status = "moving"
        /\ threads[t].emitted = 6

\* C14: a `completed` sample comes from a vehicle that does not loop, is at
\* the last waypoint with speed 0 and is followed by the end of the thread;
\* a thread that has ended does nothing more; a vehicle that does not loop
\* and is not interrupted ends with that sample; so a looping vehicle
\* sends none and the other exactly one
C14_CompletedIsTerminal ==
    /\ [](\A t \in Threads :
            /\ (sent.thread = t /\ sent.status = "completed") =>
                    /\ ~threads[t].cfg.loop
                    /\ threads[t].state = "done" /\ threads[t].pc = "exit"
                    /\ <<sent.lat, sent.lon>> =
                            threads[t].cfg.route[Len(threads[t].cfg.route)]
                    /\ sent.speed = 0 /\ sent.site = "final"
                    /\ ~clock.everStopped =>
                            threads[t].i = Len(threads[t].cfg.route) - 1
            /\ (~threads[t].cfg.loop /\ threads[t].state = "done"
                    /\ ~clock.everStopped /\ Len(threads) = 1) =>
                    sent.thread = t /\ sent.status = "completed")
    /\ [][\A t \in Threads :
            threads[t].state \in {"done", "crashed"} => threads'[t] = threads[t]
         ]_vars

\* the vehicle of three waypoints has ended, its third sample `completed`
C14_CompletedWitness ==
    \E t \in Threads :
        /\ threads[t].cfg.route = ROUTE_BEND /\ ~threads[t].cfg.loop
        /\ threads[t].state = "done" /\ ~clock.everStopped
        /\ threads[t].emitted = 3
        /\ sent.status = "completed" /\ <<sent.lat, sent.lon>> = ROUTE_BEND[3]

\* C15: every sample has a speed of at least 0, exactly 0 when `stopped`
\* or `completed`, and one of the three statuses
C15_SpeedNeverNegative ==
    sent.status # "none" =>
        /\ sent.speed >= 0
        /\ sent.status \in {"moving", "stopped", "completed"}
        /\ sent.status \in {"stopped", "completed"} => sent.speed = 0

\* the stop is within the threshold of the position
Within(pos, stop, thr) ==
    calculate_distance(pos[1], pos[2], stop[1], stop[2]) <= thr * thr

\* C16: the result of find_nearest_stop_index is the smallest index of a
\* stop within the threshold (at exactly the threshold included), -1 when
\* there is none, and the arguments are left as they were
C16_FirstStopWithinThreshold ==
    /\ [](probe.op = "find_nearest_stop_index" /\ probe.result # << >> =>
            LET pos == probe.args[1]
                stops == probe.args[2]
                thr == probe.args[3]
                r == probe.result[1]
            IN /\ r \in -1..(Len(stops) - 1)
               /\ r = -1 => \A k \in 1..Len(stops) : ~Within(pos, stops[k], thr)
               /\ r # -1 => /\ Within(pos, stops[r + 1], thr)
                            /\ \A k \in 1..r : ~Within(pos, stops[k], thr)
               /\ thr = THRESHOLD => r = find_nearest_stop_index(pos, stops))
    /\ [][probe.op = "find_nearest_stop_index" => probe'.args = probe.args]_vars

\* two stops at exactly the threshold from the position: the first is found
C16_TieWitness ==
    /\ probe.op = "find_nearest_stop_index"
    /\ probe.args = << <<0, THRESHOLD>>,
                       << <<0, 2 * THRESHOLD>>, <<0, 0>> >>, THRESHOLD >>
    /\ probe.result = <<0>>

\* x lies between a and b
Between(a, x, b) == (a <= x /\ x <= b) \/ (b <= x /\ x <= a)

\* C19: interpolate_position returns a at fraction 0 and b at fraction 1,
\* and in between a position between a and b on each axis that moves
\* from a to b as the fraction grows
C19_InterpolateEndpoints ==
    probe.op = "interpolate_position" /\ probe.result # << >> =>
        LET a == probe.args[1]
            b == probe.args[2]
            f == probe.args[3]
            r == probe.result[1]
        IN /\ f = 0 => r = a
           /\ f = FloatScale => r = b
           /\ \A k \in 1..2 :
                /\ Between(a[k], r[k], b[k])
                /\ \A g \in Fractions : g <= f =>
                      Between(a[k], interpolate_position_float(a, b, g)[k], r[k])

\* where a driver is on its way: the lap, the segment, the step
RoutePosition(th) == <<th.iteration, th.i, th.step>>

Precedes(p, q) ==
    \/ p[1] < q[1]
    \/ p[1] = q[1] /\ p[2] < q[2]
    \/ p[1] = q[1] /\ p[2] = q[2] /\ p[3] <= q[3]

\* C17: a driver never goes back on its way (lap, then segment, then
\* step), and each of its samples is of the place where it is: so the
\* samples of a vehicle are in route order, lap after lap
C17_SamplesInRouteOrder ==
    [][\A t \in Threads :
        /\ Precedes(RoutePosition(threads[t]), RoutePosition(threads'[t]))
        /\ Emits(t) =>
            /\ sent'.thread = t
            /\ <<sent'.i, sent'.step>> = <<threads[t].i, threads[t].step>>
      ]_vars

\* the first vehicle samples its second lap after samples of the second
\* vehicle, which is behind it on its own route
C17_TwoVehiclesWitness ==
    /\ Len(threads) = 2
    /\ sent.thread = 1 /\ threads[1].iteration = 2 /\ sent.step >= 1
    /\ threads[2].emitted >= 1 /\ threads[2].iteration = 1

\* the driver t, which is due, has a step of its own to take; a due
\* driver at a step of a segment waits for nothing but its random draws
\* and the answer of the service
DriverEnabled(t) ==
    CASE threads[t].pc = "while" -> ENABLED DriverWhile(t)
      [] threads[t].pc = "for_i" -> ENABLED DriverSegment(t)
      [] threads[t].pc = "for_step" ->
            NoiseChoices # {} /\ JitterChoices # {} /\ env.outcomes # {}
      [] threads[t].pc = "resume" -> ENABLED DriverResume(t)
      [] threads[t].pc = "lap_end" -> ENABLED DriverLapEnd(t)
      [] OTHER -> FALSE

\* C18: the death of a driver changes nothing but that driver; whatever
\* has died, every living driver that is due takes its step, time passes
\* for those asleep, a join of a dead thread returns, and stop() is cut
\* short by no thread that was started
C18_FaultIsolated ==
    /\ [][\A t \in Threads :
            (threads[t].state = "alive" /\ threads'[t].state = "crashed") =>
                /\ running' = running /\ main' = main /\ sent' = sent
                /\ \A u \in Threads \ {t} : threads'[u] = threads[u]
         ]_vars
    /\ [](/\ \A u \in Threads :
                (Ready(u) /\ \E t \in Threads : threads[t].state = "crashed")
                    => DriverEnabled(u)
          /\ (~MainReady /\ (\A u \in Threads : ~Ready(u))
                /\ \E u \in Threads : Alive(u) /\ threads[u].timer > 0)
                => ENABLED Tick
          /\ (main.pc = "join" /\ ~Alive(main.i)) => ENABLED stop_joined
          /\ (main.pc = "idle" /\ main.last = "stop_RuntimeError")
                => \E u \in Threads : threads[u].state = "new")

\* a driver died of a division by zero; the other went on sampling, ended
\* after stop(), and stop() returned
C18_SurvivorWitness ==
    /\ Len(threads) = 2
    /\ threads[1].state = "crashed" /\ threads[1].fault = "ZeroDivisionError"
    /\ threads[2].state = "done" /\ threads[2].emitted >= 3
    /\ main.pc = "idle" /\ main.last = "stop_ok" /\ ~running

\* the driver has left the loop over the segments by `break`, having read
\* running = FALSE there: segments of the lap are left over
BrokeOut(th) ==
    /\ th.pc \in {"lap_end", "while"}
    /\ th.iteration > 0
    /\ th.i < Len(th.cfg.route) - 1

\* C20: a driver that has read running = FALSE at a checkpoint sleeps no
\* more before it ends
C20_NoSleepAfterReadingStop ==
    \A t \in Threads :
        (Alive(t) /\ BrokeOut(threads[t])) => threads[t].timer = 0

\* C21: a `completed` sample is sent only when the loop over the segments
\* has been exhausted, never after it was left by `break`
C21_CompletedOnlyAfterLastSegment ==
    \A t \in Threads :
        (sent.thread = t /\ sent.status = "completed")
            => sent.i = Len(threads[t].cfg.route) - 1

\* C22: a sample sent by a driver that has just woken from a suspension is
\* sent with the flag set: the driver has polled the flag first
C22_PollAfterSuspension ==
    [][\A t \in Threads :
        (Emits(t) /\ threads[t].susp # "none") => running
      ]_vars

\* C23: a step sample whose position is within the threshold of a stop not
\* yet visited in this lap is a `stopped` sample, and a stop not yet visited
\* that it is within the threshold of becomes visited
C23_UnvisitedStopInRangeDwells ==
    [][\A t \in Threads :
        LET th == threads[t]
            stops == th.cfg.bus_stops
            near == {k \in 1..Len(stops) :
                        /\ (k - 1) \notin th.stopped_at_stops
                        /\ Within(<<sent'.lat, sent'.lon>>, stops[k], THRESHOLD)}
        IN (Emits(t) /\ th.pc = "for_step" /\ sent'.thread = t /\ near # {})
            => /\ sent'.status = "stopped"
               /\ \E k \in near : (k - 1) \in threads'[t].stopped_at_stops
      ]_vars

\* only time has passed for the thread
TimePassed(th, nx) == nx = [th EXCEPT !.timer = nx.timer] /\ nx.timer < th.timer

\* C24: a `stopped` sample has speed 0 and is sent with its stop newly
\* marked visited; the driver is then suspended for the dwell and its next
\* sample is a `moving` one at the position of the `stopped` one
C24_DwellSequence ==
    [][\A t \in Threads :
        LET th == threads[t]
            nx == threads'[t]
            idx == find_nearest_stop_index(<<sent'.lat, sent'.lon>>,
                                           th.cfg.bus_stops)
        IN /\ (Emits(t) /\ sent'.status = "stopped")
                => /\ sent'.thread = t /\ sent'.speed = 0
                   /\ idx \in nx.stopped_at_stops \ th.stopped_at_stops
                   /\ nx.pc = "resume" /\ nx.susp = "dwell"
                   /\ nx.timer = th.cfg.stop_duration
                   /\ <<nx.lat, nx.lon>> = <<sent'.lat, sent'.lon>>
           /\ (th.pc = "resume" /\ nx # th)
                => \/ TimePassed(th, nx)
                   \/ /\ th.timer = 0 /\ th.susp = "dwell" /\ Emits(t)
                      /\ sent'.thread = t /\ sent'.status = "moving"
                      /\ <<sent'.lat, sent'.lon>> = <<th.lat, th.lon>>
                      /\ nx.stopped_at_stops = th.stopped_at_stops
      ]_vars

\* C24 witness: a vehicle has resumed after a dwell at a noisy position
C24_ResumedWitness ==
    \E t \in Threads :
        /\ sent.thread = t /\ sent.site = "resume" /\ sent.status = "moving"
        /\ sent.lon = NOISE
        /\ threads[t].emitted >= 2 /\ threads[t].stopped_at_stops # {}

\* every segment of the route is shorter than the epsilon
AllDegenerate(route) ==
    \A k \in 1..(Len(route) - 1) :
        calculate_distance(route[k][1], route[k][2],
                           route[k + 1][1], route[k + 1][2]) < EPSILON * EPSILON

\* C25: with loop=true the step after a lap suspends the driver for the
\* inter-lap pause without a sample, and a lap after the first begins only
\* when that pause has elapsed, whether or not the lap sent anything; with
\* loop=false the step after the lap sends `completed` and ends the driver
C25_PauseAfterEveryLap ==
    [][\A t \in Threads :
        LET th == threads[t]
            nx == threads'[t]
        IN /\ (th.pc = "lap_end" /\ nx # th /\ th.cfg.loop)
                => /\ nx = [th EXCEPT !.pc = "while", !.timer = LAP_PAUSE,
                                      !.susp = "pause"]
                   /\ sent' = sent
           /\ (th.pc = "while" /\ th.iteration >= 1 /\ nx # th)
                => \/ TimePassed(th, nx)
                   \/ th.susp = "pause" /\ th.timer = 0
           /\ (th.pc = "lap_end" /\ nx # th /\ ~th.cfg.loop
                    /\ AllDegenerate(th.cfg.route))
                => /\ th.emitted = 0
                   /\ Emits(t) /\ sent'.status = "completed"
                   /\ nx.state = "done"
      ]_vars

\* C25 witness: a vehicle whose route has only degenerate segments is in
\* its second lap and has sent nothing
C25_IdleSecondLapWitness ==
    \E t \in Threads :
        /\ AllDegenerate(threads[t].cfg.route) /\ threads[t].cfg.loop
        /\ threads[t].iteration = 2 /\ threads[t].emitted = 0

\* C26: a segment shorter than the epsilon is passed over in one step that
\* sends nothing, suspends nothing and leaves the visited stops as they
\* were, the loop going on to the next segment; a driver fails on a division
\* by zero only at a longer segment, with a speed or an interval of 0
C26_DegenerateSegmentSkipped ==
    [][\A t \in Threads :
        LET th == threads[t]
            nx == threads'[t]
        IN /\ (th.pc = "for_i" /\ nx # th /\ running
                    /\ SegmentDistance(th) < EPSILON * EPSILON)
                => /\ nx.i = th.i + 1 /\ nx.step = 0
                   /\ nx.pc = IF th.i + 1 < Len(th.cfg.route) - 1
                              THEN "for_i" ELSE "lap_end"
                   /\ nx.state = "alive" /\ nx.fault = "none"
                   /\ nx.emitted = th.emitted /\ nx.posts = th.posts
                   /\ sent' = sent
                   /\ nx.timer = 0 /\ nx.susp = th.susp
                   /\ nx.stopped_at_stops = th.stopped_at_stops
                   /\ nx.dwells = th.dwells
           /\ (nx.fault = "ZeroDivisionError" /\ th.fault = "none")
                => /\ th.cfg.speed_kmh = 0 \/ th.cfg.update_interval = 0
                   /\ th.pc = "for_i"
                   /\ SegmentDistance(th) >= EPSILON * EPSILON
      ]_vars

\* C26 witness: a driver is at the first step of the second segment of a
\* route that begins with a repeated waypoint, and has sent nothing yet
C26_SkippedWitness ==
    \E t \in Threads :
        /\ threads[t].cfg.route = ROUTE_DUP /\ threads[t].cfg.speed_kmh > 0
        /\ threads[t].pc = "for_step" /\ threads[t].i = 1
        /\ threads[t].iteration = 1 /\ threads[t].emitted = 0

\* C27: the lap counter changes only by 1, at the head of the while loop,
\* where the visited set becomes empty; within a lap the visited set only
\* grows, at a step; a step sample at a stop not in the set is a `stopped`
\* one in every lap, so that a lap never interrupted ends with the stop of
\* the route dwelled at once
C27_VisitedClearedPerLap ==
    [][\A t \in Threads :
        LET th == threads[t]
            nx == threads'[t]
            idx == find_nearest_stop_index(<<sent'.lat, sent'.lon>>,
                                           th.cfg.bus_stops)
        IN /\ nx.iteration # th.iteration
                => /\ nx.iteration = th.iteration + 1
                   /\ th.pc = "while" /\ nx.stopped_at_stops = {}
           /\ (th.pc = "while" /\ nx.pc # "while" /\ nx.state = "alive")
                => nx.iteration = th.iteration + 1
           /\ (nx.stopped_at_stops # th.stopped_at_stops
                    /\ nx.iteration = th.iteration)
                => /\ th.pc = "for_step"
                   /\ th.stopped_at_stops \subseteq nx.stopped_at_stops
           /\ (Emits(t) /\ th.pc = "for_step" /\ idx # -1
                    /\ idx \notin th.stopped_at_stops)
                => sent'.status = "stopped"
           /\ (th.pc = "lap_end" /\ ~clock.everStopped
                    /\ th.cfg.bus_stops # << >>)
                => th.dwells = <<1>>
      ]_vars

\* C27 witness: in its second lap a vehicle dwells at the stop it dwelled
\* at in its first lap
C27_DwellAgainWitness ==
    \E t \in Threads :
        /\ threads[t].iteration = 2 /\ threads[t].pc = "resume"
        /\ threads[t].stopped_at_stops = {0}
        /\ sent.thread = t /\ sent.status = "stopped"
        /\ ~clock.everStopped

\* C28: the last sample of a step before the segment's final one is followed
\* by a suspension for the update interval and the next step of the segment;
\* the last sample of the final step is followed by no suspension and the
\* next segment; an update-interval suspension begins nowhere else, so a
\* segment has as many as its sample count; the step at the head of a
\* segment suspends nothing, and its first sample is sent by a thread that
\* is not waking from a suspension
C28_OneIntervalBetweenSteps ==
    [][\A t \in Threads :
        LET th == threads[t]
            nx == threads'[t]
        IN /\ (Emits(t) /\ sent'.site \in {"normal", "resume"}
                    /\ th.step < NumUpdates(th))
                => /\ nx.pc = "for_step" /\ nx.i = th.i
                   /\ nx.step = th.step + 1
                   /\ nx.susp = "interval"
                   /\ nx.timer = th.cfg.update_interval
           /\ (Emits(t) /\ sent'.site \in {"normal", "resume"}
                    /\ th.step = NumUpdates(th))
                => /\ nx.pc \in {"for_i", "lap_end"} /\ nx.i = th.i + 1
                   /\ nx.susp = "none" /\ nx.timer = 0
           /\ (nx.susp = "interval" /\ nx.timer > th.timer)
                => /\ Emits(t) /\ sent'.site \in {"normal", "resume"}
                   /\ th.step < NumUpdates(th)
           /\ (th.pc = "for_i" /\ nx # th)
                => nx.timer = 0 /\ nx.susp = th.susp
           /\ (th.pc = "for_step" /\ th.step = 0)
                => th.timer = 0 /\ th.susp \notin {"interval", "dwell"}
      ]_vars

\* C28 witness: a driver is at the first step of the second segment, the
\* last sample being the final one of the first segment, with no timer set
C28_NextSegmentWitness ==
    \E t \in Threads :
        /\ threads[t].cfg.route = ROUTE_RETURN
        /\ threads[t].pc = "for_step" /\ threads[t].i = 1
        /\ threads[t].step = 0 /\ threads[t].timer = 0
        /\ sent.thread = t /\ sent.i = 0 /\ sent.step = NumUpdates(threads[t])
        /\ sent.step = 3 /\ running

\* the driver of the vehicle has taken a step
Moved(t) ==
    /\ threads[t].state = "alive"
    /\ threads'[t] # threads[t]
    /\ ~TimePassed(threads[t], threads'[t])

\* C29: a step of a driver changes the runtime state of its own thread
\* only: the flag, the orchestrator, the other threads, its configuration
\* and the registry are as before; the flag changes only at a step that
\* begins a call of start() or stop()
C29_DriverStepFrame ==
    [][/\ \A t \in Threads :
            Moved(t)
                => /\ running' = running
                   /\ main' = main
                   /\ Len(threads') = Len(threads)
                   /\ \A u \in Threads \ {t} : threads'[u] = threads[u]
                   /\ threads'[t].cfg = threads[t].cfg
                   /\ Registry' = Registry
                   /\ env' = env
       /\ running' # running
            => /\ main'.calls = main.calls + 1
               /\ main'.pc = IF running' THEN "start" ELSE "stop"
               /\ threads' = threads
      ]_vars

\* C29 witness: of two drivers of a running fleet one has sent samples
\* while the other is alive and has sent none
C29_OtherUntouchedWitness ==
    /\ running /\ Len(threads) = 2
    /\ threads[1].state = "alive" /\ threads[1].emitted = 2
    /\ threads[2].state = "alive" /\ threads[2].emitted = 0
    /\ threads[2].iteration = 1

\* C30: no two drivers send samples under the same vehicle identifier
C30_OneDriverPerIdentifier ==
    \A t, u \in Threads :
        (/\ threads[t].cfg.vehicle_id = threads[u].cfg.vehicle_id
         /\ threads[t].emitted > 0 /\ threads[u].emitted > 0)
            => t = u

\* C31: a call of stop() entered while start() was still launching returns
\* normally, and a driver that was not launched has sent nothing
C31_StopDuringStartCompletes ==
    [][/\ (main.pc = "stop" /\ main.last = "start_KeyboardInterrupt"
            /\ main'.pc = "idle")
            => main'.last = "stop_ok"
       /\ \A t \in Threads :
            threads[t].state = "new" => threads[t].emitted = 0
      ]_vars

\* C32: a driver that was alive when stop() cleared the flag begins no
\* further lap and no further segment
C32_NoNewLapAfterStop ==
    [][\A t \in Threads :
        t \in clock.cleared
            => /\ threads'[t].iteration = threads[t].iteration
               /\ ~(threads[t].pc = "for_i" /\ threads'[t].pc = "for_step")
      ]_vars

\* C33: once stop() has returned, and until the next call, no driver
\* sends a sample
C33_NoSampleAfterStopReturned ==
    [][(main.pc = "idle" /\ main.last = "stop_ok")
        => \A t \in Threads : ~Emits(t)
      ]_vars

\* every request has been answered
Quiet == \A k \in 1..Len(service.tasks) : service.tasks[k].pc = "done"

\* C34: when every request has been answered, every stored position is
\* that of a registered vehicle
C34_PositionsOfRegisteredVehicles ==
    Quiet => \A v \in service.positions : service.vehicles[v] # "absent"

\* C35: no update_location request ends in an error of the broadcast
C35_BroadcastNeverFails ==
    \A k \in 1..Len(service.tasks) :
        service.tasks[k].op = "update_location"
            => service.tasks[k].status_code # 500

====
